---------------------------- MODULE Spec2Model ----------------------------
(***************************************************************************)
(* A model of include_parse.cpp: the recursive #include flattener with     *)
(* #pragma once deduplication, cycle detection, comment stripping and      *)
(* include-guard synthesis.                                                *)
(*                                                                         *)
(* Text is a sequence of one-character strings.  Offsets that the C++ code *)
(* keeps 0-based (pos, match_pos, match_len) are 0-based here as well; the *)
(* operators convert to the 1-based indices of TLA+ sequences.             *)
(*                                                                         *)
(* Every std::regex of the source is modelled by an operator of the same   *)
(* name that computes where a match starting at a given index ends, and    *)
(* every std::regex_replace / std::regex_search by a left-to-right scan    *)
(* that uses it (leftmost match, non-overlapping, as the library does).    *)
(***************************************************************************)
EXTENDS Integers, Sequences, FiniteSets, TLC

VARIABLES
    fs,          \* the file system read by slurp: path -> raw content
    multiline,   \* whether the library's ^ also matches after a line terminator
    status,      \* position of main: "init", "running", "done", "error"
    stack,       \* the active do_preprocess invocations, innermost last
    visiting,    \* Session::visiting
    should_skip, \* Session::should_skip
    out,         \* what main wrote to std::cout
    err,         \* what() of the exception that ended the run, <<>> if none
    spliced,     \* the source.replace calls of line 128 so far, in order
    rp_in,       \* resolver harness: the logical path p under test
    rp_quoted,   \* resolver harness: result for the spelling "p"
    rp_angle,    \* resolver harness: result for the spelling <p>
    previous     \* what the earlier run of main on this tree ended with, if any

vars == <<fs, multiline, status, stack, visiting, should_skip, out, err,
          spliced, rp_in, rp_quoted, rp_angle, previous>>

-----------------------------------------------------------------------------
(* Characters and literals *)

NL == "\n"
QUOTE == "\""
\* the character '\0', which ends a C string
NUL == "NUL"

Letters == {"a","b","c","d","e","f","g","h","i","j","k","l","m","n","o","p",
            "q","r","s","t","u","v","w","x","y","z",
            "A","B","C","D","E","F","G","H","I","J","K","L","M","N","O","P",
            "Q","R","S","T","U","V","W","X","Y","Z"}
Digits == {"0","1","2","3","4","5","6","7","8","9"}

\* \s of the regex grammar, restricted to the characters the model uses
IsSpace(c) == c \in {" ", "\t", "\n", "\r", "\f"}
\* the line terminators that . does not match and that ^ looks behind for
IsLineTerminator(c) == c \in {"\n", "\r"}
\* [a-zA-Z0-9]
IsAlnum(c) == c \in Letters \cup Digits
\* \w, used by \b
IsWord(c) == IsAlnum(c) \/ c = "_"

\* does text s hold the literal lit at 1-based index i
StartsWithAt(s, i, lit) ==
    /\ i >= 1
    /\ i + Len(lit) - 1 <= Len(s)
    /\ \A k \in 1..Len(lit) : s[i + k - 1] = lit[k]

\* first index >= i whose character is no white space (Len(s)+1 if none): \s*
RECURSIVE SkipSpace(_, _)
SkipSpace(s, i) ==
    IF i <= Len(s) /\ IsSpace(s[i]) THEN SkipSpace(s, i + 1) ELSE i

\* first index >= i where lit occurs, 0 if it does not occur
RECURSIVE FindLit(_, _, _)
FindLit(s, i, lit) ==
    IF i + Len(lit) - 1 > Len(s) THEN 0
    ELSE IF StartsWithAt(s, i, lit) THEN i
    ELSE FindLit(s, i + 1, lit)

\* first index >= i holding a line terminator, Len(s)+1 if none: the end of .*
RECURSIVE EndOfLine(_, _)
EndOfLine(s, i) ==
    IF i <= Len(s) /\ ~IsLineTerminator(s[i]) THEN EndOfLine(s, i + 1) ELSE i

\* the characters of s from 1-based index i to the end
From(s, i) == SubSeq(s, i, Len(s))

PragmaLit == <<"#","p","r","a","g","m","a">>
OnceLit == <<"o","n","c","e">>
IncludeLit == <<"#","i","n","c","l","u","d","e">>
BlockOpen == <<"/","*">>
BlockClose == <<"*","/">>
LineOpen == <<"/","/">>

-----------------------------------------------------------------------------
(* strip_pragma_once: ^\s*#pragma\s+once\b *)

\* a slip: the marker is looked for anywhere in the text
AtLineStart_Anywhere(s, i, ml) == TRUE

\* ^ at index i: the start of the text, or (multiline) just after a terminator
AtLineStart(s, i, ml) == i = 1 \/ (ml /\ i > 1 /\ IsLineTerminator(s[i - 1]))

\* index just past a match of the marker regex starting at i, 0 if none
pragma_once_directive_re(s, i, ml) ==
    LET j == SkipSpace(s, i)
        k == j + Len(PragmaLit)
        k2 == SkipSpace(s, k)
        e == k2 + Len(OnceLit)
    IN  IF /\ AtLineStart(s, i, ml)
           /\ StartsWithAt(s, j, PragmaLit)
           /\ k2 > k
           /\ StartsWithAt(s, k2, OnceLit)
           /\ (e > Len(s) \/ ~IsWord(s[e]))
        THEN e ELSE 0

\* regex_replace(source, pragma_once_directive_re, "") from index i on
RECURSIVE ReplacePragma(_, _, _)
ReplacePragma(s, i, ml) ==
    IF i > Len(s) THEN <<>>
    ELSE LET e == pragma_once_directive_re(s, i, ml)
         IN  IF e # 0 THEN ReplacePragma(s, e, ml)
             ELSE <<s[i]>> \o ReplacePragma(s, i + 1, ml)

strip_pragma_once(source, ml) ==
    LET result == ReplacePragma(source, 1, ml)
    IN  [result |-> result, has_pragma_once |-> (Len(result) # Len(source))]

-----------------------------------------------------------------------------
(* strip_comments *)

\* /\*[^]*?\*/ : index just past the match starting at i, 0 if none
block_comment_re(s, i) ==
    IF StartsWithAt(s, i, BlockOpen)
    THEN LET c == FindLit(s, i + 2, BlockClose)
         IN  IF c = 0 THEN 0 ELSE c + 2
    ELSE 0

RECURSIVE ReplaceBlock(_, _)
ReplaceBlock(s, i) ==
    IF i > Len(s) THEN <<>>
    ELSE LET e == block_comment_re(s, i)
         IN  IF e # 0 THEN ReplaceBlock(s, e)
             ELSE <<s[i]>> \o ReplaceBlock(s, i + 1)

strip_block_comments(source) == ReplaceBlock(source, 1)

\* //.* : index just past the match starting at i, 0 if none
line_comment_re(s, i) ==
    IF StartsWithAt(s, i, LineOpen) THEN EndOfLine(s, i + 2) ELSE 0

RECURSIVE ReplaceLine(_, _)
ReplaceLine(s, i) ==
    IF i > Len(s) THEN <<>>
    ELSE LET e == line_comment_re(s, i)
         IN  IF e # 0 THEN ReplaceLine(s, e)
             ELSE <<s[i]>> \o ReplaceLine(s, i + 1)

strip_line_comments(source) == ReplaceLine(source, 1)

strip_comments(source) == strip_line_comments(strip_block_comments(source))

-----------------------------------------------------------------------------
(* The directive scan: #include\s*("[^"]+"|<[^>]*>) *)

\* index just past the match starting at i, 0 if none
include_directive_re(s, i) ==
    IF ~StartsWithAt(s, i, IncludeLit) THEN 0
    ELSE LET j == SkipSpace(s, i + Len(IncludeLit))
         IN  IF j > Len(s) THEN 0
             ELSE IF s[j] = QUOTE
             THEN LET q == FindLit(s, j + 1, <<QUOTE>>)
                  IN  IF q > j + 1 THEN q + 1 ELSE 0
             ELSE IF s[j] = "<"
             THEN LET q == FindLit(s, j + 1, <<">">>)
                  IN  IF q # 0 THEN q + 1 ELSE 0
             ELSE 0

\* the index of the first '\0' at or after index i, Len(s) + 1 if none: where
\* the C string source.data() + pos ends
RECURSIVE c_str_end(_, _)
c_str_end(s, i) ==
    IF i <= Len(s) /\ s[i] # NUL THEN c_str_end(s, i + 1) ELSE i

\* the 1-based index of the leftmost match at or after index i, 0 if none
RECURSIVE SearchFrom(_, _)
SearchFrom(s, i) ==
    IF i > Len(s) THEN 0
    ELSE IF include_directive_re(s, i) # 0 THEN i
    ELSE SearchFrom(s, i + 1)

\* std::regex_search(source.data() + pos, match, include_directive_re): the
\* overload for a C string, which searches up to the first '\0'
regex_search(s, i) ==
    LET e == c_str_end(s, i)
    IN  IF e > Len(s) THEN SearchFrom(s, i) ELSE SearchFrom(SubSeq(s, 1, e - 1), i)

\* a slip: the group holds what is between the delimiters only
match_str1_Inner(s, i) ==
    SubSeq(s, SkipSpace(s, i + Len(IncludeLit)) + 1, include_directive_re(s, i) - 2)

\* match.str(1) of the match that starts at index i: the payload with delimiters
match_str1(s, i) ==
    SubSeq(s, SkipSpace(s, i + Len(IncludeLit)), include_directive_re(s, i) - 1)

-----------------------------------------------------------------------------
(* runtime_path_from_include_path, std::filesystem::path::generic_string *)

\* the assertion of line 64
PayloadOk(path) == Len(path) >= 2

\* a slip: the leading delimiter is dropped for both spellings
runtime_path_DropFirst(path) ==
    LET stripped_path == [SubSeq(path, 1, Len(path) - 1) EXCEPT ![1] = "/"]
    IN  SubSeq(stripped_path, 2, Len(stripped_path))

runtime_path_from_include_path(path) ==
    LET stripped_path == [SubSeq(path, 1, Len(path) - 1) EXCEPT ![1] = "/"]
        first_pos == IF path[1] = "<" THEN 0 ELSE 1
    IN  SubSeq(stripped_path, first_pos + 1, Len(stripped_path))

\* generic_string(): the generic format writes every directory separator as /
generic_string(p) == [i \in 1..Len(p) |-> IF p[i] = "\\" THEN "/" ELSE p[i]]

-----------------------------------------------------------------------------
(* std::hash<std::string> and std::to_string: the 64-bit FNV-1a of the     *)
(* library the project is built with.  A 64-bit value is four 16-bit limbs, *)
(* least significant first, so that no intermediate exceeds 31 bits.        *)

LowerSeq == <<"a","b","c","d","e","f","g","h","i","j","k","l","m","n","o",
              "p","q","r","s","t","u","v","w","x","y","z">>
UpperSeq == <<"A","B","C","D","E","F","G","H","I","J","K","L","M","N","O",
              "P","Q","R","S","T","U","V","W","X","Y","Z">>
DigitSeq == <<"0","1","2","3","4","5","6","7","8","9">>

IndexIn(seq, c) == CHOOSE k \in 1..Len(seq) : seq[k] = c

\* the byte value of a character (the characters a path of the model can hold)
Ascii(c) ==
    IF c \in Digits THEN 47 + IndexIn(DigitSeq, c)
    ELSE IF \E k \in 1..26 : LowerSeq[k] = c THEN 96 + IndexIn(LowerSeq, c)
    ELSE IF \E k \in 1..26 : UpperSeq[k] = c THEN 64 + IndexIn(UpperSeq, c)
    ELSE CASE c = "\n" -> 10 [] c = "\t" -> 9 [] c = " " -> 32
           [] c = "#" -> 35 [] c = "*" -> 42 [] c = "." -> 46 [] c = "/" -> 47
           [] c = "<" -> 60 [] c = ">" -> 62 [] c = "_" -> 95
           [] c = QUOTE -> 34

Limb == 256 * 256

RECURSIVE Xor(_, _)
Xor(a, b) ==
    IF a = 0 THEN b ELSE IF b = 0 THEN a
    ELSE (((a % 2) + (b % 2)) % 2) + 2 * Xor(a \div 2, b \div 2)

\* h * 1099511628211 mod 2^64, with 1099511628211 = 2^40 + 435
FnvMul(h) ==
    LET a1 == h[1] * 435
        a2 == (h[2] * 435) + (a1 \div Limb)
        a3 == (h[3] * 435) + (a2 \div Limb)
        a4 == (h[4] * 435) + (a3 \div Limb)
        b3 == (h[1] * 256) % Limb
        b4 == ((h[2] * 256) + (h[1] \div 256)) % Limb
        s3 == (a3 % Limb) + b3
        s4 == (a4 % Limb) + b4 + (s3 \div Limb)
    IN  <<a1 % Limb, a2 % Limb, s3 % Limb, s4 % Limb>>

\* the offset basis 14695981039346656037 = 0xcbf29ce484222325
FnvBasis == <<8997, 33826, 40164, 52210>>

RECURSIVE FnvAppend(_, _, _)
FnvAppend(h, s, i) ==
    IF i > Len(s) THEN h
    ELSE FnvAppend(FnvMul([h EXCEPT ![1] = Xor(h[1], Ascii(s[i]))]), s, i + 1)

std_hash(s) == FnvAppend(FnvBasis, s, 1)

\* quotient and remainder of a limb number by ten
DivTen(h) ==
    LET c4 == h[4]
        c3 == ((c4 % 10) * Limb) + h[3]
        c2 == ((c3 % 10) * Limb) + h[2]
        c1 == ((c2 % 10) * Limb) + h[1]
    IN  [q |-> <<c1 \div 10, c2 \div 10, c3 \div 10, c4 \div 10>>, r |-> c1 % 10]

DigitChar(d) == DigitSeq[d + 1]

RECURSIVE ToDigits(_)
ToDigits(h) ==
    IF h = <<0, 0, 0, 0>> THEN <<>>
    ELSE LET d == DivTen(h) IN ToDigits(d.q) \o <<DigitChar(d.r)>>

to_string(h) == IF h = <<0, 0, 0, 0>> THEN <<"0">> ELSE ToDigits(h)

-----------------------------------------------------------------------------
(* The guard synthesizer, lines 136-162 *)

\* path_safe.substr(0, 128)
MaxGuardLen == 128

\* [^a-zA-Z0-9]+ replaced by "_": every run of other characters becomes one _
RECURSIVE non_identifier_re(_, _)
non_identifier_re(s, i) ==
    IF i > Len(s) THEN <<>>
    ELSE IF IsAlnum(s[i]) THEN <<s[i]>> \o non_identifier_re(s, i + 1)
    ELSE IF i > 1 /\ ~IsAlnum(s[i - 1]) THEN non_identifier_re(s, i + 1)
    ELSE <<"_">> \o non_identifier_re(s, i + 1)

\* ^_+|_+$ replaced by "": the underscores at both ends are dropped
underscore_at_ends_re(s) ==
    LET keep == {i \in 1..Len(s) : s[i] # "_"}
    IN  IF keep = {} THEN <<>>
        ELSE SubSeq(s, CHOOSE a \in keep : \A b \in keep : a <= b,
                       CHOOSE a \in keep : \A b \in keep : a >= b)

GuardPrefix ==
    <<"N","A","M","A","_","I","N","C","L","U","D","E","_","G","U","A","R","D","_">>

guard_macro(path) ==
    LET path_safe == underscore_at_ends_re(
                         SubSeq(non_identifier_re(path, 1), 1,
                                IF Len(non_identifier_re(path, 1)) < MaxGuardLen
                                THEN Len(non_identifier_re(path, 1))
                                ELSE MaxGuardLen))
    IN  GuardPrefix \o path_safe \o <<"_">> \o to_string(std_hash(path))

IfndefLit == <<"#","i","f","n","d","e","f"," ">>
DefineLit == <<"#","d","e","f","i","n","e"," ">>
EndifLit == <<"#","e","n","d","i","f"," ","/","/"," ">>

\* lines 149-161: the buffer wrapped in the guard of the file
wrap_guard(path, old_source) ==
    LET g == guard_macro(path)
        head == IfndefLit \o g \o <<NL>> \o DefineLit \o g \o <<NL>> \o old_source
        body == IF head[Len(head)] # NL THEN head \o <<NL>> ELSE head
    IN  body \o EndifLit \o g \o <<NL>>

-----------------------------------------------------------------------------
(* The run: main and the recursion of do_preprocess *)

\* main, lines 172 and 174: the fixed root file
RootName == <<"a",".","g","l","s","l">>

HelloLit == <<"H","e","l","l","o"," ","W","o","r","l","d","!">>
CannotLoadLit == <<"C","a","n","n","o","t"," ","l","o","a","d"," ","f","i","l","e",":"," ">>
CyclicLit == <<"C","y","c","l","i","c"," ","i","n","c","l","u","s","i","o","n",":"," ">>

\* Preprocess_Result
Preprocess_Result(content, has_pragma_once) ==
    [content |-> content, has_pragma_once |-> has_pragma_once]

\* the locals of a do_preprocess invocation that has just been called.  pc is
\* "enter" before line 89, "scan" at the loop test of line 111 and "call"
\* while the invocation waits in line 119 for the nested one.
NewFrame(filename, source) ==
    [filename |-> filename, source |-> source, has_pragma_once |-> FALSE,
     pc |-> "enter", pos |-> 0,
     include_path |-> <<>>, runtime_path |-> <<>>, should_skip |-> FALSE,
     included_result |-> Preprocess_Result(<<>>, FALSE),
     match_pos |-> 0, match_len |-> 0]

Top == stack[Len(stack)]
Running == status = "running" /\ stack # <<>>

\* the file identity that keys both sets of the session
Identity(frame) == generic_string(frame.filename)

\* a slip: the replacement is never suppressed
Replacement_NeverEmpty(included_result, skip) == included_result.content

\* a slip: the once-marker of the included file is not consulted
Replacement_SkipAny(included_result, skip) ==
    IF skip THEN <<>> ELSE included_result.content

\* lines 120-124: what replaces the directive
Replacement(included_result, skip) ==
    IF included_result.has_pragma_once /\ skip THEN <<>>
    ELSE included_result.content

\* source.replace(match_pos, match_len, replacement), line 128
Splice(source, match_pos, match_len, replacement) ==
    SubSeq(source, 1, match_pos) \o replacement
        \o SubSeq(source, match_pos + match_len + 1, Len(source))

\* lines 119-129 in the caller, once the nested invocation has returned
Resume(frame, result) ==
    LET replacement == Replacement(result, frame.should_skip)
    IN  [frame EXCEPT
            !.included_result = result,
            !.source = Splice(frame.source, frame.match_pos, frame.match_len,
                              replacement),
            !.pos = frame.match_pos + Len(replacement),
            !.pc = "scan"]

\* what line 128 did: for which file, whether should_skip lacked it before this
\* occurrence, what the nested invocation returned and what was spliced in
SpliceRecord(frame, result) ==
    [file |-> generic_string(frame.runtime_path),
     first |-> ~frame.should_skip,
     result |-> result,
     replacement |-> Replacement(result, frame.should_skip)]

\* a return of the innermost invocation: to the invocation that called it, or
\* to main (lines 174-177), which prints the content and the greeting
ReturnTo(result) ==
    IF Len(stack) = 1
    THEN /\ stack' = <<>>
         /\ out' = result.content \o <<NL>> \o HelloLit \o <<NL>>
         /\ status' = "done"
         /\ UNCHANGED spliced
    ELSE /\ stack' = SubSeq(stack, 1, Len(stack) - 2)
                        \o <<Resume(stack[Len(stack) - 1], result)>>
         /\ spliced' = Append(spliced, SpliceRecord(stack[Len(stack) - 1], result))
         /\ UNCHANGED <<out, status>>

\* a slip: the error is noted, the include is dropped and the run goes on
Throw_SkipInclude(what) ==
    /\ err' = what
    /\ IF Top.pc = "enter"
       THEN stack' = SubSeq(stack, 1, Len(stack) - 2)
                        \o <<Resume(stack[Len(stack) - 1], Preprocess_Result(<<>>, FALSE))>>
       ELSE stack' = [stack EXCEPT ![Len(stack)] =
                         [@ EXCEPT !.pos = regex_search(Top.source, Top.pos + 1)]]
    /\ UNCHANGED <<status, out, spliced>>

\* a throw: no invocation and not main catches, so every active invocation is
\* left by the exception and the run is over; nothing is printed
Throw(what) ==
    /\ status' = "error"
    /\ err' = what
    /\ stack' = <<>>
    /\ UNCHANGED <<out, spliced>>

\* slurp, lines 73-83
CanSlurp(path) == path \in DOMAIN fs
slurp(path) == fs[path]

\* a slip: the guard is written whether the file declared the marker or not
Finish_AlwaysWrap(frame) ==
    Preprocess_Result(wrap_guard(Identity(frame), frame.source), frame.has_pragma_once)

\* lines 132-167: the end of an invocation whose loop found no more directive
Finish(frame) ==
    Preprocess_Result(
        IF frame.has_pragma_once
        THEN wrap_guard(Identity(frame), frame.source)
        ELSE frame.source,
        frame.has_pragma_once)

\* line 92: the file is in visiting already
Revisits(frame) == Identity(frame) \in visiting

\* a slip: every revisit is forgiven, marker or not
ForgivesCycle_Always(frame) == TRUE

\* a slip: no revisit is forgiven
ForgivesCycle_Never(frame) == FALSE

\* line 93: a revisit returns empty content if the content declares the marker
ForgivesCycle(frame) == strip_pragma_once(frame.source, multiline).has_pragma_once

\* main, lines 172-174
main_start ==
    /\ status = "init"
    /\ IF CanSlurp(RootName)
       THEN /\ stack' = <<NewFrame(RootName, slurp(RootName))>>
            /\ status' = "running"
            /\ UNCHANGED err
       ELSE /\ status' = "error"
            /\ err' = CannotLoadLit \o RootName
            /\ UNCHANGED stack
    /\ UNCHANGED <<fs, multiline, visiting, should_skip, out, spliced,
                   rp_in, rp_quoted, rp_angle, previous>>

\* a slip: the early return releases the identity as a normal return does
enter_cyclic_once_Erase ==
    /\ Running /\ Top.pc = "enter"
    /\ Revisits(Top)
    /\ ForgivesCycle(Top)
    /\ ReturnTo(Preprocess_Result(<<>>, TRUE))
    /\ visiting' = visiting \ {Identity(Top)}
    /\ UNCHANGED <<fs, multiline, should_skip, err, rp_in, rp_quoted, rp_angle, previous>>

\* lines 87-98: the file is being expanded already and declares the marker
enter_cyclic_once ==
    /\ Running /\ Top.pc = "enter"
    /\ Revisits(Top)
    /\ ForgivesCycle(Top)
    /\ ReturnTo(Preprocess_Result(<<>>, TRUE))
    /\ UNCHANGED <<fs, multiline, visiting, should_skip, err, rp_in, rp_quoted, rp_angle, previous>>

\* lines 87-101: the file is being expanded already and has no marker
enter_cyclic_throw ==
    /\ Running /\ Top.pc = "enter"
    /\ Revisits(Top)
    /\ ~ForgivesCycle(Top)
    /\ Throw(CyclicLit \o Identity(Top))
    /\ UNCHANGED <<fs, multiline, visiting, should_skip, rp_in, rp_quoted, rp_angle, previous>>

\* a slip: the file is not added to visiting
enter_body_NoVisit ==
    /\ Running /\ Top.pc = "enter"
    /\ ~Revisits(Top)
    /\ LET sp == strip_pragma_once(Top.source, multiline)
       IN  stack' = [stack EXCEPT ![Len(stack)] =
                        [@ EXCEPT !.has_pragma_once = sp.has_pragma_once,
                                  !.source = strip_comments(sp.result),
                                  !.pos = 0,
                                  !.pc = "scan"]]
    /\ UNCHANGED <<fs, multiline, status, visiting, should_skip, out, err, spliced,
                   rp_in, rp_quoted, rp_angle, previous>>

\* lines 87-110: the marker is stripped, the file joins visiting, the comments
\* are stripped and the scan starts at offset 0
enter_body ==
    /\ Running /\ Top.pc = "enter"
    /\ ~Revisits(Top)
    /\ LET sp == strip_pragma_once(Top.source, multiline)
       IN  stack' = [stack EXCEPT ![Len(stack)] =
                        [@ EXCEPT !.has_pragma_once = sp.has_pragma_once,
                                  !.source = strip_comments(sp.result),
                                  !.pos = 0,
                                  !.pc = "scan"]]
    /\ visiting' = visiting \cup {Identity(Top)}
    /\ UNCHANGED <<fs, multiline, status, should_skip, out, err, spliced,
                   rp_in, rp_quoted, rp_angle, previous>>

\* a slip: a file with the marker that was included before is not read and
\* not expanded again, its directive is dropped at once
scan_call_SkipKnown ==
    /\ Running /\ Top.pc = "scan"
    /\ LET m == regex_search(Top.source, Top.pos + 1)
       IN  /\ m # 0
           /\ LET include_path == match_str1(Top.source, m)
                  runtime_path == runtime_path_from_include_path(include_path)
                  name == generic_string(runtime_path)
                  len == include_directive_re(Top.source, m) - m
              IN  /\ PayloadOk(include_path)
                  /\ CanSlurp(name)
                  /\ should_skip' = should_skip \cup {name}
                  /\ IF /\ name \in should_skip
                        /\ strip_pragma_once(slurp(name), multiline).has_pragma_once
                     THEN stack' = [stack EXCEPT ![Len(stack)] =
                                       [@ EXCEPT !.source = Splice(Top.source, m - 1,
                                                                   len, <<>>),
                                                 !.pos = m - 1]]
                     ELSE stack' = [stack EXCEPT ![Len(stack)] =
                                       [@ EXCEPT !.include_path = include_path,
                                                 !.runtime_path = runtime_path,
                                                 !.should_skip = (name \in should_skip),
                                                 !.match_pos = m - 1,
                                                 !.match_len = len,
                                                 !.pc = "call"]]
                                    \o <<NewFrame(runtime_path, slurp(name))>>
    /\ UNCHANGED <<fs, multiline, status, visiting, out, err, spliced,
                   rp_in, rp_quoted, rp_angle, previous>>

\* a slip: should_skip is consulted but the file is not added to it
scan_call_NoRegister ==
    /\ Running /\ Top.pc = "scan"
    /\ LET m == regex_search(Top.source, Top.pos + 1)
       IN  /\ m # 0
           /\ LET include_path == match_str1(Top.source, m)
                  runtime_path == runtime_path_from_include_path(include_path)
                  name == generic_string(runtime_path)
              IN  /\ PayloadOk(include_path)
                  /\ CanSlurp(name)
                  /\ stack' = [stack EXCEPT ![Len(stack)] =
                                  [@ EXCEPT !.include_path = include_path,
                                            !.runtime_path = runtime_path,
                                            !.should_skip = (name \in should_skip),
                                            !.match_pos = m - 1,
                                            !.match_len =
                                                include_directive_re(Top.source, m) - m,
                                            !.pc = "call"]]
                               \o <<NewFrame(runtime_path, slurp(name))>>
    /\ UNCHANGED <<fs, multiline, status, visiting, should_skip, out, err, spliced,
                   rp_in, rp_quoted, rp_angle, previous>>

\* lines 111-119: the next directive is found, its file is read, should_skip
\* is consulted and extended, and do_preprocess is called for the file
scan_call ==
    /\ Running /\ Top.pc = "scan"
    /\ LET m == regex_search(Top.source, Top.pos + 1)
       IN  /\ m # 0
           /\ LET include_path == match_str1(Top.source, m)
                  runtime_path == runtime_path_from_include_path(include_path)
                  name == generic_string(runtime_path)
              IN  /\ PayloadOk(include_path)
                  /\ CanSlurp(name)
                  /\ should_skip' = should_skip \cup {name}
                  /\ stack' = [stack EXCEPT ![Len(stack)] =
                                  [@ EXCEPT !.include_path = include_path,
                                            !.runtime_path = runtime_path,
                                            !.should_skip = (name \in should_skip),
                                            !.match_pos = m - 1,
                                            !.match_len =
                                                include_directive_re(Top.source, m) - m,
                                            !.pc = "call"]]
                               \o <<NewFrame(runtime_path, slurp(name))>>
    /\ UNCHANGED <<fs, multiline, status, visiting, out, err, spliced,
                   rp_in, rp_quoted, rp_angle, previous>>

\* lines 111-114: the next directive is found and slurp throws
scan_missing ==
    /\ Running /\ Top.pc = "scan"
    /\ LET m == regex_search(Top.source, Top.pos + 1)
       IN  /\ m # 0
           /\ LET name == generic_string(
                              runtime_path_from_include_path(match_str1(Top.source, m)))
              IN  /\ ~CanSlurp(name)
                  /\ Throw(CannotLoadLit \o name)
    /\ UNCHANGED <<fs, multiline, visiting, should_skip, rp_in, rp_quoted, rp_angle, previous>>

\* lines 111 and 132-167: no directive is left; the file leaves visiting, the
\* guard is written if the file declared the marker, and the result returns
scan_finish ==
    /\ Running /\ Top.pc = "scan"
    /\ regex_search(Top.source, Top.pos + 1) = 0
    /\ visiting' = visiting \ {Identity(Top)}
    /\ ReturnTo(Finish(Top))
    /\ UNCHANGED <<fs, multiline, should_skip, err, rp_in, rp_quoted, rp_angle, previous>>

Next ==
    \/ main_start
    \/ enter_cyclic_once
    \/ enter_cyclic_throw
    \/ enter_body
    \/ scan_call
    \/ scan_missing
    \/ scan_finish

-----------------------------------------------------------------------------
(* The file trees of the runs *)

\* the most include directives that the files of a tree hold together
MaxIncludes == 3

NameB == <<"b">>
NameC == <<"c">>
Targets == {RootName, NameB, NameC}

PragmaLine == PragmaLit \o <<" ">> \o OnceLit \o <<NL>>
IncludeLine(target) == IncludeLit \o <<" ", QUOTE>> \o target \o <<QUOTE, NL>>

RECURSIVE IncludeLines(_)
IncludeLines(targets) ==
    IF targets = <<>> THEN <<>>
    ELSE IncludeLine(Head(targets)) \o IncludeLines(Tail(targets))

\* a file: the marker line if once, one directive per target, a line of text
FileText(once, targets, tag) ==
    (IF once THEN PragmaLine ELSE <<>>) \o IncludeLines(targets) \o <<tag, NL>>

TargetSeqs(n) == UNION {[1..k -> Targets] : k \in 0..n}

SessionInit ==
    /\ status = "init"
    /\ stack = <<>>
    /\ visiting = {}
    /\ should_skip = {}
    /\ out = <<>>
    /\ err = <<>>
    /\ spliced = <<>>

HarnessIdle ==
    rp_in = <<>> /\ rp_quoted = <<>> /\ rp_angle = <<>> /\ previous = <<>>

\* a.glsl and b exist, c may be missing (any include of it then fails to load)
InitTree ==
    \E ta \in TargetSeqs(MaxIncludes), oa, ob \in BOOLEAN :
    \E tb \in TargetSeqs(MaxIncludes - Len(ta)) :
       \/ \E tc \in TargetSeqs(MaxIncludes - Len(ta) - Len(tb)), oc \in BOOLEAN :
             fs = (RootName :> FileText(oa, ta, "A")) @@ (NameB :> FileText(ob, tb, "B"))
                    @@ (NameC :> FileText(oc, tc, "C"))
       \/ fs = (RootName :> FileText(oa, ta, "A")) @@ (NameB :> FileText(ob, tb, "B"))

\* no file at all: the slurp of main fails
InitNoRoot == fs = <<>>

Init ==
    /\ InitTree \/ InitNoRoot
    /\ multiline \in BOOLEAN
    /\ SessionInit
    /\ HarnessIdle

Spec == Init /\ [][Next]_vars

-----------------------------------------------------------------------------
(* The program run twice on the same tree *)

\* a slip: the second run goes on with the session of the first
rerun_KeepSession ==
    /\ status \in {"done", "error"}
    /\ previous = <<>>
    /\ previous' = <<[status |-> status, out |-> out, err |-> err]>>
    /\ status' = "init"
    /\ stack' = <<>>
    /\ out' = <<>> /\ err' = <<>> /\ spliced' = <<>>
    /\ UNCHANGED <<fs, multiline, visiting, should_skip, rp_in, rp_quoted, rp_angle>>

\* main is run again once it has ended: a new process, so a new Session
\* (line 173) and an empty std::cout; what the first run ended with is kept
rerun ==
    /\ status \in {"done", "error"}
    /\ previous = <<>>
    /\ previous' = <<[status |-> status, out |-> out, err |-> err]>>
    /\ status' = "init"
    /\ stack' = <<>>
    /\ visiting' = {} /\ should_skip' = {}
    /\ out' = <<>> /\ err' = <<>> /\ spliced' = <<>>
    /\ UNCHANGED <<fs, multiline, rp_in, rp_quoted, rp_angle>>

NextTwice == Next \/ rerun

SpecTwice == Init /\ [][NextTwice]_vars

-----------------------------------------------------------------------------
(* Runs over root files that mix comment delimiters and directives *)

\* the most fragments that the root file is put together from
MaxFragments == 4

IncludeOf(target) == IncludeLit \o <<" ", QUOTE>> \o target \o <<QUOTE>>

\* a slash, the block delimiters, a line end, and directives for b, for the
\* root itself and for c, which does not exist
Fragments ==
    {<<"/">>, BlockOpen, BlockClose, <<NL>>,
     IncludeOf(NameB), IncludeOf(RootName), IncludeOf(NameC)}

FragmentSeqs(n) == UNION {[1..k -> Fragments] : k \in 0..n}

RECURSIVE Concat(_)
Concat(parts) == IF parts = <<>> THEN <<>> ELSE Head(parts) \o Concat(Tail(parts))

InitComments ==
    /\ \E parts \in FragmentSeqs(MaxFragments), once \in BOOLEAN :
          fs = (RootName :> ((IF once THEN PragmaLine ELSE <<>>)
                               \o Concat(parts) \o <<"A", NL>>))
                 @@ (NameB :> <<"B", NL>>)
    /\ multiline \in BOOLEAN
    /\ SessionInit
    /\ HarnessIdle

SpecComments == InitComments /\ [][Next]_vars

-----------------------------------------------------------------------------
(* The path resolver on its own: both spellings of every short path *)

\* the longest logical path that is resolved
MaxPathLen == 3

PathChars == {"a", "b", ".", "/", "\\"}
PathStrings(n) == UNION {[1..k -> PathChars] : k \in 1..n}

Quoted(p) == <<QUOTE>> \o p \o <<QUOTE>>
Angled(p) == <<"<">> \o p \o <<">">>

InitResolver ==
    /\ rp_in \in PathStrings(MaxPathLen)
    /\ rp_quoted = <<>> /\ rp_angle = <<>> /\ previous = <<>>
    /\ fs = <<>> /\ multiline = FALSE
    /\ status = "resolver" /\ stack = <<>> /\ visiting = {} /\ should_skip = {}
    /\ out = <<>> /\ err = <<>> /\ spliced = <<>>

\* lines 112-113 and the generic_string() of lines 114-117, for "p" and <p>
resolve ==
    /\ status = "resolver"
    /\ rp_angle = <<>>
    /\ rp_quoted' = generic_string(runtime_path_from_include_path(Quoted(rp_in)))
    /\ rp_angle' = generic_string(runtime_path_from_include_path(Angled(rp_in)))
    /\ UNCHANGED <<fs, multiline, status, stack, visiting, should_skip, out, err,
                   spliced, rp_in, previous>>

SpecResolver == InitResolver /\ [][resolve]_vars

-----------------------------------------------------------------------------
(* Runs over files with short bodies, with and without a last line end *)

\* the most parts that the body of the root file is put together from
MaxBodyParts == 3

MarkerLit == PragmaLit \o <<" ">> \o OnceLit

\* a letter, a line end, a '\0', a quoted payload on its own, and directives
\* for b, for the root and for c, which does not exist
BodyParts ==
    {<<"A">>, <<NL>>, <<NUL>>, <<QUOTE>> \o NameC \o <<QUOTE>>,
     IncludeOf(NameB), IncludeOf(RootName), IncludeOf(NameC)}

BodySeqs(n) == UNION {[1..k -> BodyParts] : k \in 0..n}

\* b: empty, the marker alone, text with and without a last line end, the
\* directive keyword without a payload
SmallFiles == {<<>>, MarkerLit, MarkerLit \o <<NL, "B">>, <<"B", NL>>, IncludeLit}

InitGuard ==
    /\ \E parts \in BodySeqs(MaxBodyParts), once \in BOOLEAN, b \in SmallFiles :
          fs = (RootName :> ((IF once THEN MarkerLit ELSE <<>>) \o Concat(parts)))
                 @@ (NameB :> b)
    /\ multiline \in BOOLEAN
    /\ SessionInit
    /\ HarnessIdle

SpecGuard == InitGuard /\ [][Next]_vars

-----------------------------------------------------------------------------
(* Runs over root files that mix comment delimiters and the once-marker *)

\* the most parts that the head of the root file is put together from
MaxMarkerParts == 4

\* the comment delimiters, a line end and the marker
MarkerParts == {LineOpen, BlockOpen, BlockClose, <<NL>>, MarkerLit}

MarkerSeqs(n) == UNION {[1..k -> MarkerParts] : k \in 0..n}

\* what follows the head: nothing, or on a line of its own a directive for
\* b, for the root itself or for c, which does not exist
Tails == {<<>>} \cup {<<NL>> \o IncludeOf(t) \o <<NL>> : t \in Targets}

InitMarker ==
    /\ \E parts \in MarkerSeqs(MaxMarkerParts), tail \in Tails :
          fs = (RootName :> (Concat(parts) \o tail)) @@ (NameB :> <<"B", NL>>)
    /\ multiline \in BOOLEAN
    /\ SessionInit
    /\ HarnessIdle

SpecMarker == InitMarker /\ [][Next]_vars

-----------------------------------------------------------------------------
(* Runs over trees whose root includes b and c, which include one file *)

\* the most directives of the root file
MaxRootIncludes == 2

RootSeqs(n) == UNION {[1..k -> {NameB, NameC}] : k \in 0..n}

\* b and c hold at most one directive, for any of the three files
LeafSeqs == {<<>>} \cup {<<t>> : t \in Targets}

InitDiamond ==
    /\ \E ta \in RootSeqs(MaxRootIncludes), tb \in LeafSeqs, oa, ob \in BOOLEAN :
          \/ \E tc \in LeafSeqs, oc \in BOOLEAN :
                fs = (RootName :> FileText(oa, ta, "A"))
                       @@ (NameB :> FileText(ob, tb, "B"))
                       @@ (NameC :> FileText(oc, tc, "C"))
          \/ fs = (RootName :> FileText(oa, ta, "A"))
                    @@ (NameB :> FileText(ob, tb, "B"))
    /\ multiline \in BOOLEAN
    /\ SessionInit
    /\ HarnessIdle

SpecDiamond == InitDiamond /\ [][Next]_vars

-----------------------------------------------------------------------------
(* Runs over root files put together from the pieces of a directive *)

\* the most pieces of the root file
MaxPayloadParts == 4

\* the directive word, a blank, the two kinds of delimiters and the name b
PayloadParts == {IncludeLit, <<" ">>, <<QUOTE>>, <<"<">>, <<">">>, NameB}

PayloadSeqs(n) == UNION {[1..k -> PayloadParts] : k \in 0..n}

\* b is plain, or includes the root, or declares the marker and includes itself
LeafFiles == {<<"B", NL>>, IncludeOf(RootName), MarkerLit \o <<NL>> \o IncludeOf(NameB)}

InitPayload ==
    /\ \E parts \in PayloadSeqs(MaxPayloadParts), b \in LeafFiles :
          fs = (RootName :> Concat(parts)) @@ (NameB :> b)
    /\ multiline \in BOOLEAN
    /\ SessionInit
    /\ HarnessIdle

SpecPayload == InitPayload /\ [][Next]_vars

-----------------------------------------------------------------------------
(* Notions the properties are stated with *)

\* the file declares the once-marker
FileDeclaresOnce(name) == strip_pragma_once(fs[name], multiline).has_pragma_once

\* how often the literal occurs in the text from index i on
RECURSIVE CountLit(_, _, _)
CountLit(s, i, lit) ==
    LET m == FindLit(s, i, lit)
    IN  IF m = 0 THEN 0 ELSE 1 + CountLit(s, m + 1, lit)

\* the first line of the guard with macro g, and of the guard of a file
GuardOpenOf(g) == IfndefLit \o g \o <<NL>>
GuardOpen(name) == GuardOpenOf(guard_macro(name))

\* text is some buffer wrapped in the three guard lines with macro g
IsGuardedBy(g, text) ==
    LET opener == IfndefLit \o g \o <<NL>> \o DefineLit \o g \o <<NL>>
        closer == EndifLit \o g \o <<NL>>
    IN  /\ Len(text) >= Len(opener) + Len(closer)
        /\ StartsWithAt(text, 1, opener)
        /\ StartsWithAt(text, Len(text) - Len(closer) + 1, closer)

\* text is some buffer wrapped in the three guard lines of the file
IsGuarded(name, text) == IsGuardedBy(guard_macro(name), text)

\* the include occurrences of a file that have been replaced so far
SplicesOf(name) == {i \in 1..Len(spliced) : spliced[i].file = name}

\* the innermost invocation has just spliced the result of a nested one
Resumed == Running /\ Top.pc = "scan" /\ Top.include_path # <<>>

\* the text that the last splice of the innermost invocation put in
Inserted == SubSeq(Top.source, Top.match_pos + 1, Top.pos)

-----------------------------------------------------------------------------
(* C1 *)

\* C1 as stated: after a successful run, every once-marked file with more than
\* one include occurrence has exactly one occurrence replaced by its guarded
\* content and all others by the empty string, and its guard opens once in the
\* output.
C1_AsStated ==
    status = "done" =>
        \A name \in DOMAIN fs :
            (Cardinality(SplicesOf(name)) > 1 /\ FileDeclaresOnce(name)) =>
                LET g == guard_macro(name)
                IN  /\ \E i \in SplicesOf(name) :
                          /\ IsGuardedBy(g, spliced[i].replacement)
                          /\ \A j \in SplicesOf(name) \ {i} :
                                spliced[j].replacement = <<>>
                    /\ CountLit(out, 1, GuardOpenOf(g)) = 1

\* C1 amended: the statement holds for every once-marked file other than the
\* root; the include occurrences of a once-marked root are all replaced by the
\* empty string (its guarded content is the output itself); in both cases the
\* guard of the file opens exactly once in the output.
C1_OncePerRun ==
    status = "done" =>
        \A name \in DOMAIN fs :
            (Cardinality(SplicesOf(name)) > 1 /\ FileDeclaresOnce(name)) =>
                LET g == guard_macro(name)
                IN  /\ name # RootName =>
                          \E i \in SplicesOf(name) :
                              /\ IsGuardedBy(g, spliced[i].replacement)
                              /\ \A j \in SplicesOf(name) \ {i} :
                                    spliced[j].replacement = <<>>
                    /\ name = RootName =>
                          \A j \in SplicesOf(name) : spliced[j].replacement = <<>>
                    /\ CountLit(out, 1, GuardOpenOf(g)) = 1

\* a successful run in which b, once-marked, was included three times: once
\* expanded with its guard, twice replaced by nothing
C1_Witness ==
    /\ status = "done"
    /\ FileDeclaresOnce(NameB)
    /\ Cardinality(SplicesOf(NameB)) = 3
    /\ \E i \in SplicesOf(NameB) :
          /\ IsGuarded(NameB, spliced[i].replacement)
          /\ \A j \in SplicesOf(NameB) \ {i} : spliced[j].replacement = <<>>
    /\ CountLit(out, 1, GuardOpen(NameB)) = 1

-----------------------------------------------------------------------------
(* C2 *)

\* C2: whenever an include occurrence of a file without the once-marker has
\* been replaced, the text put in place of the directive is the whole content
\* that the expansion of the file returned, whether or not should_skip held
\* the file before, and the scan resumes right after it.
C2_NonOnceAlwaysExpanded ==
    (Resumed /\ ~FileDeclaresOnce(generic_string(Top.runtime_path))) =>
        /\ ~Top.included_result.has_pragma_once
        /\ Top.pos = Top.match_pos + Len(Top.included_result.content)
        /\ Inserted = Top.included_result.content
        /\ Len(Inserted) > 0
        /\ spliced[Len(spliced)].replacement = Inserted

\* a later occurrence of b, not once-marked, has just been expanded again
C2_Witness ==
    /\ Resumed
    /\ ~FileDeclaresOnce(generic_string(Top.runtime_path))
    /\ Top.should_skip
    /\ Inserted = Top.included_result.content
    /\ CountLit(Inserted, 1, <<"B", NL>>) >= 1

-----------------------------------------------------------------------------
(* The include graph of the file tree *)

\* the files named by the directives of a comment-stripped text, from index i
RECURSIVE TargetsFrom(_, _)
TargetsFrom(s, i) ==
    LET m == regex_search(s, i)
    IN  IF m = 0 THEN {}
        ELSE {generic_string(runtime_path_from_include_path(match_str1(s, m)))}
                \cup TargetsFrom(s, include_directive_re(s, m))

\* the files that the directives of a file name
Includes(name) ==
    TargetsFrom(strip_comments(strip_pragma_once(fs[name], multiline).result), 1)

\* the include graph of the tree: a pair for every directive, from the file
\* that holds it to the file it names
Edges == UNION {{<<f, t>> : t \in Includes(f)} : f \in DOMAIN fs}

\* the files that the directives of the files of S name
Succ(E, S) == {e[2] : e \in {d \in E : d[1] \in S}}

\* the files reached from those of S by following the directives of the
\* files of the set through
RECURSIVE ReachVia(_, _, _)
ReachVia(S, through, E) ==
    LET T == S \cup (Succ(E, S \cap through) \cap DOMAIN fs)
    IN  IF T = S THEN S ELSE ReachVia(T, through, E)

Reachable(E) ==
    IF RootName \in DOMAIN fs THEN ReachVia({RootName}, DOMAIN fs, E) ELSE {}

NonOnce == {f \in DOMAIN fs : ~FileDeclaresOnce(f)}

\* the file includes itself, directly or through a chain of files
IncludesItself(x, E) == x \in ReachVia(Succ(E, {x}) \cap DOMAIN fs, DOMAIN fs, E)

\* the same, through a chain of files none of which declares the marker
IncludesItselfWithoutOnce(x, E, nonOnce) ==
    x \in nonOnce /\ x \in ReachVia(Succ(E, {x}) \cap DOMAIN fs, nonOnce, E)

\* some reachable file has a directive whose file cannot be read
MissingReachable(E) == \E e \in E : e[1] \in Reachable(E) /\ e[2] \notin DOMAIN fs

Final == status \in {"done", "error"}
IsCyclicError == StartsWithAt(err, 1, CyclicLit)
IsLoadError == StartsWithAt(err, 1, CannotLoadLit)

-----------------------------------------------------------------------------
(* C3 *)

\* C3 as stated, on the trees in which every included file exists: if a
\* reachable file without the once-marker includes itself directly or
\* transitively, the run ends in a cyclic-inclusion error without output.
C3_AsStated ==
    Final =>
        LET E == Edges
            nonOnce == NonOnce
        IN  (/\ ~MissingReachable(E)
             /\ \E x \in Reachable(E) : x \in nonOnce /\ IncludesItself(x, E)) =>
                status = "error" /\ IsCyclicError /\ out = <<>>

\* C3 amended: if a reachable file includes itself directly or through a chain
\* of files none of which declares the once-marker, the run ends in an error
\* without output: the cyclic-inclusion error, unless a directive of a
\* reachable file names a missing file and that load error comes first.
C3_UnmarkedCycleFails ==
    Final =>
        LET E == Edges
            nonOnce == NonOnce
        IN  (\E x \in Reachable(E) : IncludesItselfWithoutOnce(x, E, nonOnce)) =>
                /\ status = "error"
                /\ out = <<>>
                /\ IsCyclicError \/ (MissingReachable(E) /\ IsLoadError)

\* a run that ended in the cyclic-inclusion error for a cycle of two or more
\* files without the marker, after at least one include had been expanded
C3_Witness ==
    /\ status = "error" /\ IsCyclicError /\ out = <<>>
    /\ spliced # <<>>
    /\ LET E == Edges
           nonOnce == NonOnce
       IN  /\ \E x \in Reachable(E) :
                 IncludesItselfWithoutOnce(x, E, nonOnce) /\ <<x, x>> \notin E
           /\ ~MissingReachable(E)

-----------------------------------------------------------------------------
(* C4 *)

\* C4 as stated, on the trees in which every included file exists and no file
\* includes itself through unmarked files alone: if a reachable file with the
\* once-marker includes itself directly or transitively, the run succeeds.
C4_AsStated ==
    Final =>
        LET E == Edges
            nonOnce == NonOnce
        IN  (/\ ~MissingReachable(E)
             /\ ~\E y \in Reachable(E) : IncludesItselfWithoutOnce(y, E, nonOnce)
             /\ \E x \in Reachable(E) : x \notin nonOnce /\ IncludesItself(x, E)) =>
                status = "done"

\* the inner reference to a file that is still being expanded has just been
\* replaced
CyclicReferenceReplaced == Resumed /\ generic_string(Top.runtime_path) \in visiting

\* C4 amended: a reference to a once-marked file whose expansion is in progress
\* raises no error and is replaced by the empty string; and if no directive of
\* a reachable file names a missing file and every reachable file that
\* includes itself declares the marker, the run succeeds and each such file
\* appears expanded inside its guard exactly once in the output.
C4_MarkedCycleForgiven ==
    /\ CyclicReferenceReplaced =>
          /\ FileDeclaresOnce(generic_string(Top.runtime_path))
          /\ Top.included_result = Preprocess_Result(<<>>, TRUE)
          /\ Inserted = <<>>
          /\ Top.pos = Top.match_pos
    /\ Final =>
          LET E == Edges
              nonOnce == NonOnce
              cyclic == {x \in Reachable(E) : IncludesItself(x, E)}
          IN  (cyclic # {} /\ cyclic \cap nonOnce = {} /\ ~MissingReachable(E)) =>
                  /\ status = "done"
                  /\ \A x \in cyclic :
                        LET g == guard_macro(x)
                        IN  /\ CountLit(out, 1, GuardOpenOf(g)) = 1
                            /\ x = RootName => StartsWithAt(out, 1, GuardOpenOf(g))
                            /\ x # RootName =>
                                  \E i \in SplicesOf(x) :
                                      IsGuardedBy(g, spliced[i].replacement)

\* a successful run in which b, once-marked, included itself through c: the
\* outer b is in the output inside its guard, the reference from c was emptied
C4_Witness ==
    /\ status = "done"
    /\ FileDeclaresOnce(NameB) /\ NameB \in Reachable(Edges)
    /\ NameC \in DOMAIN fs /\ NameC \in Includes(NameB) /\ NameB \in Includes(NameC)
    /\ CountLit(out, 1, GuardOpen(NameB)) = 1
    /\ \E i, j \in SplicesOf(NameB) :
          /\ IsGuarded(NameB, spliced[i].replacement)
          /\ j < i
          /\ spliced[j].result = Preprocess_Result(<<>>, TRUE)
          /\ spliced[j].replacement = <<>>

-----------------------------------------------------------------------------
(* C5, C6 *)

\* the invocation is past the cycle check and has not finished
InBody(frame) == frame.pc \in {"scan", "call"}

InProgress == {Identity(stack[i]) : i \in {k \in 1..Len(stack) : InBody(stack[k])}}

\* C5: at every point of a run, visiting is exactly the set of the identities
\* of the invocations in progress (empty before and after the top-level call).
C5_VisitingIsInProgress == visiting = InProgress

\* C6: an identity that an invocation added to visiting is gone from visiting
\* once the invocation has been left, on whatever path: visiting holds only
\* identities of invocations that are still active.
C6_RemovedOnEveryExit ==
    \A id \in visiting :
        \E i \in 1..Len(stack) : InBody(stack[i]) /\ Identity(stack[i]) = id

-----------------------------------------------------------------------------
(* C8 *)

\* the directive that the scan of the innermost invocation finds next names a
\* file that cannot be read
NextIsMissing ==
    /\ Running /\ Top.pc = "scan"
    /\ regex_search(Top.source, Top.pos + 1) # 0
    /\ ~CanSlurp(generic_string(runtime_path_from_include_path(
            match_str1(Top.source, regex_search(Top.source, Top.pos + 1)))))

\* the innermost invocation is about to fail the cycle check
NextIsCyclic == Running /\ Top.pc = "enter" /\ Revisits(Top) /\ ~ForgivesCycle(Top)

\* C8: an error ends the run where it is met: the step that meets a missing
\* file or an unforgiven cycle leaves every invocation and sets the error,
\* no step follows an error, nothing was or is printed, and a run that
\* finishes met no error.
C8_FirstErrorAborts ==
    /\ [](status = "error" => (out = <<>> /\ stack = <<>> /\ err # <<>>))
    /\ [](status = "done" => err = <<>>)
    /\ [][status # "error"]_vars
    /\ [][(NextIsMissing \/ NextIsCyclic) =>
            (status' = "error" /\ stack' = <<>> /\ out' = <<>>
             /\ spliced' = spliced)]_vars

\* a run that was aborted by a missing file after it had expanded an include
C8_Witness ==
    /\ status = "error" /\ IsLoadError
    /\ spliced # <<>>
    /\ out = <<>>

-----------------------------------------------------------------------------
(* C9 *)

Terminated == status \in {"done", "error"}

\* the invocations past the cycle check hold pairwise different identities,
\* all of them in visiting, so the stack holds at most one invocation more
\* than there are files
DepthBounded ==
    /\ Len(stack) <= Cardinality(DOMAIN fs) + 1
    /\ \A i, j \in 1..Len(stack) :
          (i < j /\ InBody(stack[i]) /\ InBody(stack[j])) =>
              Identity(stack[i]) # Identity(stack[j])
    /\ \A i \in 1..Len(stack) : InBody(stack[i]) => Identity(stack[i]) \in visiting
    /\ \A i \in 1..Len(stack) : i < Len(stack) => InBody(stack[i])

\* the directives of a text from index i on
RECURSIVE CountDirectives(_, _)
CountDirectives(s, i) ==
    LET m == regex_search(s, i)
    IN  IF m = 0 THEN 0 ELSE 1 + CountDirectives(s, include_directive_re(s, m))

\* what the invocation at position i of the stack has left to do, 0 for a
\* position above the stack: an invocation that has not passed the cycle
\* check counts more than it can after it (a text holds fewer directives than
\* characters), one that has counts the directives it has not yet consumed
Remaining(st, i) ==
    IF i > Len(st) THEN 0
    ELSE CASE st[i].pc = "enter" -> Len(st[i].source) + 2
           [] st[i].pc = "scan" -> CountDirectives(st[i].source, st[i].pos + 1) + 1
           [] st[i].pc = "call" ->
                  CountDirectives(st[i].source,
                                  st[i].match_pos + st[i].match_len + 1) + 1

\* where main is: before the call, in it, after it
Phase(stat) == CASE stat = "init" -> 2 [] stat = "running" -> 1 [] OTHER -> 0

\* the work left on stack st2 is less than on stack st1, outermost invocation
\* most significant, from position i on
RECURSIVE LessFrom(_, _, _, _)
LessFrom(st2, st1, i, depth) ==
    IF i > depth THEN FALSE
    ELSE LET r2 == Remaining(st2, i)
             r1 == Remaining(st1, i)
         IN  r2 < r1 \/ (r2 = r1 /\ LessFrom(st2, st1, i + 1, depth))

\* the variant of the run is the phase of main followed by the work left at
\* each of the boundedly many stack positions, a tuple of natural numbers
\* ordered lexicographically; a step lowers it
Decreases ==
    \/ Phase(status') < Phase(status)
    \/ /\ Phase(status') = Phase(status)
       /\ LessFrom(stack', stack, 1, Cardinality(DOMAIN fs) + 1)

\* a run that has not ended can take a step: the guards of the steps cover
\* every position that main and the innermost invocation can be at
NotStuck ==
    \/ Terminated
    \/ status = "init"
    \/ Running /\ Top.pc = "enter"
    \/ /\ Running /\ Top.pc = "scan"
       /\ LET m == regex_search(Top.source, Top.pos + 1)
          IN  \/ m = 0
              \/ ~CanSlurp(generic_string(
                     runtime_path_from_include_path(match_str1(Top.source, m))))
              \/ PayloadOk(match_str1(Top.source, m))

\* C9: every run over a finite file tree, cyclic or not, terminates, and the
\* recursion is never deeper than the number of file identities plus one:
\* the depth is bounded, a run that has not ended can always take a step, and
\* every step lowers a variant in a well-founded order.
C9_Terminates ==
    /\ []DepthBounded
    /\ []NotStuck
    /\ [][Decreases]_vars

\* the recursion at its deepest: a.glsl, b and c in progress and a fourth
\* invocation entered for a file that is in visiting
C9_Witness ==
    /\ Cardinality(DOMAIN fs) = 3
    /\ Len(stack) = Cardinality(DOMAIN fs) + 1
    /\ Cardinality(visiting) = 3
    /\ Revisits(Top)

-----------------------------------------------------------------------------
(* C7 *)

\* a text without its comments as a C lexer sees them: scanning left to right,
\* // opens a comment that runs to the end of the line and /* one that runs
\* to the next */, whichever comes first
RECURSIVE WithoutComments(_, _)
WithoutComments(s, i) ==
    IF i > Len(s) THEN <<>>
    ELSE IF StartsWithAt(s, i, LineOpen)
    THEN WithoutComments(s, EndOfLine(s, i + 2))
    ELSE IF StartsWithAt(s, i, BlockOpen) /\ FindLit(s, i + 2, BlockClose) # 0
    THEN WithoutComments(s, FindLit(s, i + 2, BlockClose) + 2)
    ELSE <<s[i]>> \o WithoutComments(s, i + 1)

\* the files named by the directives of a file that lie outside its comments
OutsideComments(name) ==
    TargetsFrom(WithoutComments(strip_pragma_once(fs[name], multiline).result, 1), 1)

\* C7: a directive inside a // or /* */ comment is never expanded and never
\* causes a file read: every nested invocation is for a file that a directive
\* outside the comments of the including file names, and so is every file
\* whose read failed.
C7_CommentedNeverRead ==
    /\ \A i \in 2..Len(stack) :
          Identity(stack[i]) \in OutsideComments(Identity(stack[i - 1]))
    /\ (IsLoadError /\ err # CannotLoadLit \o RootName) =>
          \E f \in DOMAIN fs : \E t \in OutsideComments(f) : err = CannotLoadLit \o t

-----------------------------------------------------------------------------
(* C10 *)

Resolved == status = "resolver" /\ rp_angle # <<>>

\* C10 as stated: the quoted and the angle-bracket spelling of the same path
\* resolve to the same path.
C10_AsStated == Resolved => rp_quoted = rp_angle

\* C10 amended: the quoted spelling "p" resolves to p and the angle-bracket
\* spelling <p> to /p (separators written as /), which differ for every p;
\* the spelling that resolves to the path of <p> is the quoted "/p".
C10_AngleIsRooted ==
    Resolved =>
        /\ rp_quoted = generic_string(rp_in)
        /\ rp_angle = <<"/">> \o generic_string(rp_in)
        /\ rp_quoted # rp_angle
        /\ generic_string(runtime_path_from_include_path(Quoted(<<"/">> \o rp_in)))
              = rp_angle

\* a path of three characters with a separator in it has been resolved
C10_Witness ==
    /\ Resolved
    /\ rp_in = <<"a", "/", "b">>
    /\ rp_quoted = <<"a", "/", "b">>
    /\ rp_angle = <<"/", "a", "/", "b">>

-----------------------------------------------------------------------------
(* C11 *)

\* the guard lines of the text are those of the files of the tree: each
\* name after #ifndef is the guard macro of a file, computed from its identity
GuardsAreOfFiles(text) ==
    LET opens == {GuardOpen(f) : f \in DOMAIN fs}
    IN  \A i \in 1..Len(text) :
            StartsWithAt(text, i, IfndefLit) =>
                \E g \in opens : StartsWithAt(text, i, g)

-----------------------------------------------------------------------------
(* C12 *)

\* the innermost invocation has been entered for a file that is in visiting
\* and whose content declares the once-marker
AtCyclicOnceEntry ==
    /\ Running /\ Top.pc = "enter"
    /\ Identity(Top) \in visiting
    /\ strip_pragma_once(Top.source, multiline).has_pragma_once

\* C12: an invocation entered for an identity in visiting whose content
\* declares the once-marker returns at once with empty content and
\* has_pragma_once = true: its caller resumes with that result, no invocation
\* is started (no directive scanned, no file read), no guard is produced, and
\* visiting and should_skip are as before, the identity still in visiting.
C12_CyclicOnceReturnsEmpty ==
    [][AtCyclicOnceEntry =>
          /\ Len(stack) >= 2
          /\ Len(stack') = Len(stack) - 1
          /\ SubSeq(stack', 1, Len(stack) - 2) = SubSeq(stack, 1, Len(stack) - 2)
          /\ stack'[Len(stack')].included_result = Preprocess_Result(<<>>, TRUE)
          /\ stack'[Len(stack')].pc = "scan"
          /\ visiting' = visiting /\ should_skip' = should_skip
          /\ Identity(Top) \in visiting'
          /\ status' = status /\ err' = err /\ out' = out /\ fs' = fs
          /\ Len(spliced') = Len(spliced) + 1
          /\ spliced'[Len(spliced')].file = Identity(Top)
          /\ spliced'[Len(spliced')].result = Preprocess_Result(<<>>, TRUE)]_vars

\* c, entered from b while a.glsl, b and c are in progress, has just got the
\* empty result for its reference to b
C12_Witness ==
    /\ Running /\ Len(stack) = 3 /\ Top.pc = "scan"
    /\ Identity(Top) = NameC
    /\ generic_string(Top.runtime_path) = NameB
    /\ visiting = {RootName, NameB, NameC}
    /\ Top.included_result = Preprocess_Result(<<>>, TRUE)
    /\ Top.pos = Top.match_pos

-----------------------------------------------------------------------------
(* C13 *)

\* the innermost invocation is at the loop test and no directive is left: it
\* returns its buffer
AtNormalReturn ==
    Running /\ Top.pc = "scan" /\ regex_search(Top.source, Top.pos + 1) = 0

\* the three guard lines with macro g around the buffer, with a line end put
\* after the buffer if wanted
Wrapped(g, buffer, line_end) ==
    IfndefLit \o g \o <<NL>> \o DefineLit \o g \o <<NL>>
        \o buffer \o (IF line_end THEN <<NL>> ELSE <<>>)
        \o EndifLit \o g \o <<NL>>

\* the step hands content to the caller of the innermost invocation: to the
\* invocation below it, or to main, which prints it before the greeting
HandsOver(content) ==
    IF Len(stack) = 1
    THEN status' = "done" /\ out' = content \o <<NL>> \o HelloLit \o <<NL>>
    ELSE /\ Len(stack') = Len(stack) - 1
         /\ stack'[Len(stack')].included_result.content = content

\* C13 as stated: a normal return hands over the buffer wrapped in the guard
\* of the file, with a line end added if the buffer does not end in one,
\* exactly when the file declares the marker, and the bare buffer otherwise.
C13_AsStated ==
    [][AtNormalReturn =>
          LET buffer == Top.source
              ends == buffer # <<>> /\ buffer[Len(buffer)] = NL
          IN  IF FileDeclaresOnce(Identity(Top))
              THEN HandsOver(Wrapped(guard_macro(Identity(Top)), buffer, ~ends))
              ELSE HandsOver(buffer)]_vars

\* C13 amended: the line end is added if the buffer is not empty and does not
\* end in one (behind an empty buffer the closing line follows the #define
\* line directly); the cyclic early return hands over the empty string,
\* unwrapped.
C13_GuardWrap ==
    [][/\ AtNormalReturn =>
             LET buffer == Top.source
                 lacks == buffer # <<>> /\ buffer[Len(buffer)] # NL
             IN  IF FileDeclaresOnce(Identity(Top))
                 THEN HandsOver(Wrapped(guard_macro(Identity(Top)), buffer, lacks))
                 ELSE HandsOver(buffer)
       /\ AtCyclicOnceEntry => HandsOver(<<>>)]_vars

\* the root has just got b back: b's buffer, a line end and a B, had no last
\* line end and was wrapped with one added
C13_Witness ==
    /\ Resumed /\ Len(stack) = 1
    /\ generic_string(Top.runtime_path) = NameB
    /\ Top.included_result =
          Preprocess_Result(Wrapped(guard_macro(NameB), <<NL, "B">>, TRUE), TRUE)

-----------------------------------------------------------------------------
(* C14 *)

\* the innermost invocation is at the loop test
AtLoopTest == Running /\ Top.pc = "scan"

\* the step takes up the directive of the innermost invocation's buffer that
\* starts at index m: its file is read and expanded, or the read fails
TakesUp(m) ==
    \/ status' = "error" /\ StartsWithAt(err', 1, CannotLoadLit)
    \/ /\ Len(stack') = Len(stack) + 1
       /\ stack'[Len(stack)].pc = "call"
       /\ stack'[Len(stack)].match_pos = m - 1
       /\ stack'[Len(stack)].include_path = match_str1(Top.source, m)

\* the step ends the innermost invocation
Returns == status' = "done" \/ (status' = "running" /\ Len(stack') = Len(stack) - 1)

\* C14: the directives of a comment-stripped body are processed left to
\* right, each exactly once: at the loop test the leftmost directive in the
\* rest of the buffer is taken up, and the invocation returns only when the
\* rest holds none; after a splice the search resumes at the first character
\* after the replacement, so that no later match holds a character of it.
C14_LeftToRightOnce ==
    [][/\ AtLoopTest =>
             LET m == SearchFrom(Top.source, Top.pos + 1)
             IN  IF m = 0 THEN Returns ELSE m > Top.pos /\ TakesUp(m)
       /\ (Running /\ Top.pc = "enter" /\ Len(stack) >= 2
              /\ Len(stack') = Len(stack) - 1) =>
             LET caller == stack[Len(stack) - 1]
                 after == stack'[Len(stack')]
                 inserted == Len(after.source) - Len(caller.source) + caller.match_len
             IN  after.pos = caller.match_pos + inserted]_vars

-----------------------------------------------------------------------------
(* C15 *)

\* the identities that the include occurrences of the run so far resolved to:
\* those whose expansion has returned and those whose expansion is going on
OccurredSoFar ==
    {spliced[i].file : i \in 1..Len(spliced)}
        \cup {generic_string(stack[i].runtime_path) :
                 i \in {j \in 1..Len(stack) : stack[j].pc = "call"}}

\* C15: should_skip only grows; it holds exactly the identities that an
\* include occurrence of the run has resolved to; an occurrence adds its
\* identity before the expansion of the child begins, and its first_time is
\* true exactly when no earlier occurrence resolved to the same identity.
C15_ShouldSkipGrows ==
    /\ [](status \in {"running", "done"} => should_skip = OccurredSoFar)
    /\ [][/\ should_skip \subseteq should_skip'
          /\ (Running /\ status' = "running" /\ Len(stack') = Len(stack) + 1) =>
                LET name == Identity(stack'[Len(stack')])
                    first_time == ~stack'[Len(stack)].should_skip
                IN  /\ stack'[Len(stack')].pc = "enter"
                    /\ should_skip' = should_skip \cup {name}
                    /\ first_time <=> name \notin OccurredSoFar]_vars

\* b has been included for the second time, after another file, and this
\* occurrence was not the first
C15_Witness ==
    /\ Resumed
    /\ generic_string(Top.runtime_path) = NameB
    /\ Top.should_skip
    /\ Cardinality(should_skip) >= 2
    /\ Cardinality(SplicesOf(NameB)) = 2

-----------------------------------------------------------------------------
(* C16 *)

\* scanning s from index i outside any comment: is index k inside a // line
\* comment, or inside a closed /* */ block comment
RECURSIVE InLineComment(_, _, _)
RECURSIVE InBlockComment(_, _, _)
InLineComment(s, i, k) ==
    IF i > Len(s) \/ i > k THEN FALSE
    ELSE IF StartsWithAt(s, i, LineOpen)
    THEN LET e == EndOfLine(s, i + 2) IN k < e \/ InLineComment(s, e, k)
    ELSE IF StartsWithAt(s, i, BlockOpen) /\ FindLit(s, i + 2, BlockClose) # 0
    THEN InLineComment(s, FindLit(s, i + 2, BlockClose) + 2, k)
    ELSE InLineComment(s, i + 1, k)
InBlockComment(s, i, k) ==
    IF i > Len(s) \/ i > k THEN FALSE
    ELSE IF StartsWithAt(s, i, LineOpen)
    THEN InBlockComment(s, EndOfLine(s, i + 2), k)
    ELSE IF StartsWithAt(s, i, BlockOpen) /\ FindLit(s, i + 2, BlockClose) # 0
    THEN LET e == FindLit(s, i + 2, BlockClose) + 2
         IN  k < e \/ InBlockComment(s, e, k)
    ELSE InBlockComment(s, i + 1, k)

\* where the text holds the marker
MarkersIn(s) == {k \in 1..Len(s) : StartsWithAt(s, k, MarkerLit)}

\* the marker at index k begins its line: only white space lies between it
\* and the line terminator before it
BeginsItsLine(s, k) ==
    \E j \in 2..k : /\ IsLineTerminator(s[j - 1])
                    /\ \A x \in j..(k - 1) : IsSpace(s[x])

\* the root file has been entered and its marker looked for
RootEntered == Running /\ stack[1].pc # "enter" /\ Identity(stack[1]) = RootName

\* C16 as stated: a once-marker that is commented out, by // or by /* */, is
\* still detected.
C16_AsStated ==
    RootEntered =>
        LET raw == fs[RootName]
            markers == MarkersIn(raw)
        IN  (/\ markers # {}
             /\ \A k \in markers : InLineComment(raw, 1, k) \/ InBlockComment(raw, 1, k))
                => stack[1].has_pragma_once

\* C16 amended: detection is anchored at a line start, so of the markers that
\* are commented out only those are detected that begin a line inside a
\* /* */ comment, and only in a build whose ^ matches at every line start; a
\* marker inside a // comment is never detected.
C16_CommentedMarker ==
    RootEntered =>
        LET raw == fs[RootName]
            markers == MarkersIn(raw)
        IN  (/\ markers # {}
             /\ \A k \in markers : InLineComment(raw, 1, k) \/ InBlockComment(raw, 1, k))
                => (stack[1].has_pragma_once <=>
                      /\ multiline
                      /\ \E k \in markers :
                            InBlockComment(raw, 1, k) /\ BeginsItsLine(raw, k))

\* the marker on a line of its own inside a block comment has been detected
C16_Witness ==
    /\ RootEntered
    /\ multiline
    /\ StartsWithAt(fs[RootName], 1, BlockOpen \o <<NL>> \o MarkerLit)
    /\ InBlockComment(fs[RootName], 1, 4)
    /\ stack[1].has_pragma_once

-----------------------------------------------------------------------------
(* C17 *)

\* no file of the tree holds a '\0'
NulFree == \A f \in DOMAIN fs : \A i \in 1..Len(fs[f]) : fs[f][i] # NUL

\* C17, on the trees without a '\0' in any file: after a successful run the
\* output holds no text that matches an inclusion directive.
C17_SelfContained ==
    (status = "done" /\ NulFree) =>
        \A i \in 1..Len(out) : include_directive_re(out, i) = 0

-----------------------------------------------------------------------------
(* C18 *)

\* the invocation at position i of the stack waits for the expansion of a
\* file with the marker that had been included before: what it gets back
\* will be replaced by nothing
AwaitsDiscarded(i) ==
    /\ stack[i].pc = "call"
    /\ stack[i].should_skip
    /\ FileDeclaresOnce(generic_string(stack[i].runtime_path))

\* C18: an include occurrence of a file with the marker that was included
\* before still reads the file and starts its expansion; the expansion, if
\* the file is not in progress, runs in full and its guarded result is then
\* replaced by nothing; an error raised inside it ends the run without output.
C18_DiscardedStillExpanded ==
    [][/\ AtLoopTest =>
             LET m == regex_search(Top.source, Top.pos + 1)
                 name == generic_string(
                             runtime_path_from_include_path(match_str1(Top.source, m)))
             IN  (m # 0 /\ name \in should_skip /\ name \in DOMAIN fs) =>
                     /\ Len(stack') = Len(stack) + 1
                     /\ stack'[Len(stack)].pc = "call"
                     /\ stack'[Len(stack)].should_skip
                     /\ stack'[Len(stack')] = NewFrame(name, fs[name])
       /\ (Running /\ Len(stack) >= 2 /\ AwaitsDiscarded(Len(stack) - 1)
              /\ status' = "running" /\ Len(stack') = Len(stack) - 1) =>
             LET caller == stack[Len(stack) - 1]
                 after == stack'[Len(stack')]
             IN  /\ after.source = Splice(caller.source, caller.match_pos,
                                          caller.match_len, <<>>)
                 /\ Top.pc = "scan" =>
                       IsGuarded(Identity(Top), after.included_result.content)
       /\ (Running /\ status' = "error"
              /\ \E i \in 1..Len(stack) : AwaitsDiscarded(i)) =>
             out' = <<>> /\ stack' = <<>>]_vars

\* b, with the marker, was expanded inside its guard before; now c, without
\* the marker, is in progress and waits for b's second expansion, whose
\* result will be dropped, and in it b has reached c again: the cyclic error
\* is about to end the run
C18_Witness ==
    /\ Running /\ Len(stack) = 4
    /\ Identity(stack[2]) = NameC /\ AwaitsDiscarded(2)
    /\ Identity(stack[3]) = NameB
    /\ Top.pc = "enter" /\ Identity(Top) = NameC
    /\ Revisits(Top) /\ ~ForgivesCycle(Top)
    /\ \E i \in SplicesOf(NameB) : IsGuarded(NameB, spliced[i].replacement)

-----------------------------------------------------------------------------
(* C19 *)

\* C19: whenever the scan finds a directive, the payload handed to
\* runtime_path_from_include_path has at least two characters, so that the
\* assertion of that function holds on every call do_preprocess makes.
C19_PayloadAtLeastTwo ==
    AtLoopTest =>
        LET m == regex_search(Top.source, Top.pos + 1)
        IN  m # 0 => PayloadOk(match_str1(Top.source, m))

\* the shortest payload, <>, was resolved to the path / and the read of it
\* failed
C19_Witness ==
    /\ status = "error"
    /\ err = CannotLoadLit \o <<"/">>
    /\ \E i \in 1..Len(fs[RootName]) :
          /\ include_directive_re(fs[RootName], i) # 0
          /\ match_str1(fs[RootName], i) = <<"<", ">">>

=============================================================================
